---- MODULE Spec2Model ----
(***************************************************************************)
(* Station.get_data of noaa_coops/station.py as a state machine: the date  *)
(* parsing, the choice between one request and 31/365 day blocks, the      *)
(* request URL built per block (with its argument checks), the handling of *)
(* each block's response by _url2pandas, and the per-product renaming,     *)
(* indexing and resampling of the concatenated table.                      *)
(* Station construction (__init__, get_metadata, get_data_inventory) is a  *)
(* second state machine, SpecStation, and get_stations_from_bbox a third,  *)
(* SpecBbox, over the same variables.                                      *)
(***************************************************************************)
EXTENDS Integers, Sequences, FiniteSets, TLC

VARIABLES pc, query, begin_datetime, end_datetime, i, df, requests,
          responses, outcome, data, station, init_args, fetched,
          coords_given, coords, station_list

vars == <<pc, query, begin_datetime, end_datetime, i, df, requests,
          responses, outcome, data, station, init_args, fetched,
          coords_given, coords, station_list>>

(***************************************************************************)
(* Bounds of the model                                                     *)
(***************************************************************************)
\* most block requests one modelled fetch may plan
MaxRequests == 3
\* most entries in one modelled data inventory response
MaxParameters == 2
\* most elements in a coordinate list handed to get_stations_from_bbox
MaxCoords == 3
\* day number of the begin date of every modelled query
BeginDay == 1

(***************************************************************************)
(* Program constants                                                       *)
(***************************************************************************)
\* the single-request limit and block length of the default products
SHORT_BLOCK_DAYS == 31
\* the single-request limit and block length of hourly_height and high_low
LONG_BLOCK_DAYS == 365
MINUTES_PER_DAY == 1440
MINUTES_PER_HOUR == 60

\* Python's None (an option left out by the caller)
None == "None"

\* max(S) and min(S)
SetMax(S) == CHOOSE x \in S : \A y \in S : y <= x

SetMin(S) == CHOOSE x \in S : \A y \in S : x <= y

(***************************************************************************)
(* Date strings and datetimes                                              *)
(*                                                                         *)
(* A date string is [fmt, day, min]: the layout it is written in, the day  *)
(* number of its calendar date and its minute of the day (0 in the two     *)
(* layouts that carry no time).  fmt "invalid" is a string none of the     *)
(* known layouts matches.  A datetime is [day, min].                       *)
(***************************************************************************)
KnownFormats == <<"%Y%m%d", "%Y%m%d %H:%M", "%m/%d/%Y", "%m/%d/%Y %H:%M">>

TimedFormats == {"%Y%m%d %H:%M", "%m/%d/%Y %H:%M"}

InvalidDateString == [fmt |-> "invalid", day |-> 0, min |-> 0]

\* a date written in a layout that is not one of the known ones
IsoDateString == [fmt |-> "%Y-%m-%d", day |-> BeginDay, min |-> 0]

NoDateString == [fmt |-> "", day |-> 0, min |-> 0]

NoDatetime == [day |-> 0, min |-> 0]

\* datetime.strptime(dt_string, fmt): whether it matches, and its value
strptime_matches(dt_string, fmt) == dt_string.fmt = fmt

strptime(dt_string) == [day |-> dt_string.day, min |-> dt_string.min]

\* a strftime that writes the time of day whatever the layout
strftime_keep_time(dt, fmt) == [fmt |-> fmt, day |-> dt.day, min |-> dt.min]

\* datetime.strftime(fmt): a layout without %H:%M drops the time of day
strftime(dt, fmt) ==
    [fmt |-> fmt, day |-> dt.day,
     min |-> IF fmt \in TimedFormats THEN dt.min ELSE 0]

\* _parse_known_date_formats with the last layout left out of the loop
parse_known_date_formats_three(dt_string) ==
    IF \E k \in 1..(Len(KnownFormats) - 1) : strptime_matches(dt_string, KnownFormats[k])
    THEN [raise |-> FALSE, value |-> strptime(dt_string)]
    ELSE [raise |-> TRUE, value |-> NoDatetime]

\* _parse_known_date_formats: the first layout that matches, else ValueError
parse_known_date_formats(dt_string) ==
    IF \E k \in 1..Len(KnownFormats) : strptime_matches(dt_string, KnownFormats[k])
    THEN [raise |-> FALSE, value |-> strptime(dt_string)]
    ELSE [raise |-> TRUE, value |-> NoDatetime]

TotalMinutes(dt) == dt.day * MINUTES_PER_DAY + dt.min

\* (end_datetime - begin_datetime).days: timedelta.days is the floor
delta_days(begin_dt, end_dt) ==
    (TotalMinutes(end_dt) - TotalMinutes(begin_dt)) \div MINUTES_PER_DAY

\* dt + timedelta(days=n)
plus_days(dt, n) == [day |-> dt.day + n, min |-> dt.min]

(***************************************************************************)
(* Request planning (get_data, the four branches on delta.days / product)  *)
(***************************************************************************)
LongBlockProducts == {"hourly_height", "high_low"}

\* request_branch with the first comparison strict
request_branch_strict(days, product) ==
    IF days < SHORT_BLOCK_DAYS THEN "single_formatted"
    ELSE IF days <= LONG_BLOCK_DAYS /\ product \in LongBlockProducts THEN "single_raw"
    ELSE IF product \in LongBlockProducts THEN "blocks_365"
    ELSE "blocks_31"

\* which of the four branches of get_data a span of `days` whole days takes
request_branch(days, product) ==
    IF days <= SHORT_BLOCK_DAYS THEN "single_formatted"
    ELSE IF days <= LONG_BLOCK_DAYS /\ product \in LongBlockProducts THEN "single_raw"
    ELSE IF product \in LongBlockProducts THEN "blocks_365"
    ELSE "blocks_31"

SingleBranches == {"single_formatted", "single_raw"}

block_days(branch) ==
    IF branch = "blocks_365" THEN LONG_BLOCK_DAYS ELSE SHORT_BLOCK_DAYS

\* num_365day_blocks / num_31day_blocks: int(math.floor(delta.days / size))
num_blocks(days, branch) == days \div block_days(branch)

\* loop_count with range(num_blocks) in place of range(num_blocks + 1)
loop_count_short(days, branch) ==
    IF branch \in SingleBranches THEN 1 ELSE num_blocks(days, branch)

\* how many times the branch calls _url2pandas: once, or range(num_blocks + 1)
loop_count(days, branch) ==
    IF branch \in SingleBranches THEN 1 ELSE num_blocks(days, branch) + 1

\* the num_request_blocks argument the branch hands to _url2pandas
num_request_blocks_arg(days, branch) ==
    IF branch \in SingleBranches THEN 1 ELSE num_blocks(days, branch)

\* end_datetime_loop never replaced by end_datetime
end_datetime_loop_unclipped(begin_loop, end_dt, size) == plus_days(begin_loop, size)

\* end_datetime_loop: the block's end, replaced by end_datetime when later
end_datetime_loop(begin_loop, end_dt, size) ==
    IF TotalMinutes(plus_days(begin_loop, size)) > TotalMinutes(end_dt)
    THEN end_dt
    ELSE plus_days(begin_loop, size)

\* the begin_date / end_date strings of the k-th call (k from 0) of a branch
block_dates(branch, k, begin_date, end_date, begin_dt, end_dt) ==
    IF branch = "single_formatted"
    THEN [begin_date |-> strftime(begin_dt, "%Y%m%d %H:%M"),
          end_date   |-> strftime(end_dt, "%Y%m%d %H:%M")]
    ELSE IF branch = "single_raw"
    THEN [begin_date |-> begin_date, end_date |-> end_date]
    ELSE LET size == block_days(branch)
             begin_loop == plus_days(begin_dt, k * size)
         IN  [begin_date |-> strftime(begin_loop, "%Y%m%d"),
              end_date   |-> strftime(end_datetime_loop(begin_loop, end_dt, size),
                                      "%Y%m%d")]

(***************************************************************************)
(* _build_request_url: the parameters of the request, or ValueError.       *)
(* A parameter whose value is None is left out of the URL by requests, so  *)
(* None stands for "not in the URL"; bin_num is kept as its str().         *)
(***************************************************************************)
DatumProducts == {"water_level", "hourly_height", "high_low"}

NoUrl ==
    [begin_date |-> InvalidDateString, end_date |-> InvalidDateString,
     product |-> "", datum |-> None, bin |-> None, interval |-> None,
     units |-> "", time_zone |-> ""]

build_request_url(begin_date, end_date, product, datum, bin_num, interval, units, time_zone) ==
    LET base == [begin_date |-> begin_date, end_date |-> end_date,
                 product |-> product, datum |-> None, bin |-> None,
                 interval |-> None, units |-> units, time_zone |-> time_zone]
    IN
    IF product = "water_level"
    THEN IF datum = None
         THEN [raise |-> TRUE, url |-> NoUrl]
         ELSE [raise |-> FALSE,
               url |-> [base EXCEPT !.datum = datum, !.interval = interval]]
    ELSE IF product \in {"hourly_height", "high_low"}
    THEN IF datum = None
         THEN [raise |-> TRUE, url |-> NoUrl]
         ELSE [raise |-> FALSE, url |-> [base EXCEPT !.datum = datum]]
    ELSE IF product = "predictions"
    THEN [raise |-> FALSE,
          url |-> [base EXCEPT !.datum = datum, !.interval = interval]]
    ELSE IF product = "currents"
    THEN IF bin_num = None
         THEN [raise |-> TRUE, url |-> NoUrl]
         ELSE [raise |-> FALSE, url |-> [base EXCEPT !.bin = bin_num]]
    ELSE [raise |-> FALSE, url |-> [base EXCEPT !.interval = interval]]

(***************************************************************************)
(* Upstream payloads and _url2pandas                                       *)
(*                                                                         *)
(* An error message is [present, lpad, text, rpad]: whether the error dict *)
(* has a "message" key, and the text with its leading/trailing blanks.     *)
(* A DataFrame is [columns, rows]; a row is [t, v, ty]: its timestamp, its *)
(* value and (high_low only) its event type.                               *)
(***************************************************************************)
no_data_error ==
    [present |-> TRUE, lpad |-> 0, rpad |-> 0,
     text |-> "No data was found. This product may not be offered at this station at the requested time."]

NoMessage == [present |-> FALSE, lpad |-> 0, rpad |-> 0, text |-> ""]

\* str.lstrip().rstrip()
strip(message) == [message EXCEPT !.lpad = 0, !.rpad = 0]

\* json_dict["error"].get("message", "Error retrieving data")
get_message(message) ==
    IF message.present THEN message
    ELSE [present |-> TRUE, lpad |-> 0, rpad |-> 0, text |-> "Error retrieving data"]

EmptyDataFrame == [columns |-> {}, rows |-> <<>>]

\* json_normalize(records): no records give a frame without columns
json_normalize(records, fields) ==
    IF records = <<>> THEN EmptyDataFrame
    ELSE [columns |-> fields, rows |-> records]

\* pd.concat([df_block, df])
concat_block_first(frame, block) ==
    [columns |-> frame.columns \cup block.columns,
     rows |-> block.rows \o frame.rows]

\* pd.concat([df, df_block])
concat(frame, block) ==
    [columns |-> frame.columns \cup block.columns,
     rows |-> frame.rows \o block.rows]

\* a table is [index, columns, rows, hourly]; NoTable: there is none
NoTable == [index |-> "", columns |-> {}, rows |-> <<>>, hourly |-> FALSE]

\* an outcome is how the call ended; dt_string is the date string that the
\* ValueError of _parse_known_date_formats quotes, value the table returned
Raised(exc, at, message) ==
    [kind |-> "raised", exc |-> exc, at |-> at, message |-> message,
     dt_string |-> NoDateString, value |-> NoTable]

\* ValueError(f"Invalid date format '{dt_string}' provided. ...")
RaisedInvalidDate(dt_string) ==
    [Raised("ValueError", "_parse_known_date_formats", NoMessage)
        EXCEPT !.dt_string = dt_string]

NoOutcome ==
    [kind |-> "none", exc |-> "", at |-> "", message |-> NoMessage,
     dt_string |-> NoDateString, value |-> NoTable]

Returned(table) ==
    [kind |-> "returned", exc |-> "", at |-> "", message |-> NoMessage,
     dt_string |-> NoDateString, value |-> table]

\* _url2pandas from response.json() on: the block's frame, or what it
\* raises (json() itself when the body is not JSON); the response's status
\* is not looked at
url2pandas(json_dict, product, num_request_blocks) ==
    IF ~json_dict.json
    THEN [raise |-> TRUE, df |-> EmptyDataFrame,
          outcome |-> Raised("JSONDecodeError", "_url2pandas", NoMessage)]
    ELSE IF ~json_dict.error
    THEN LET key == IF product = "predictions" THEN "predictions" ELSE "data"
         IN  IF json_dict.key = key
             THEN [raise |-> FALSE, outcome |-> NoOutcome,
                   df |-> json_normalize(json_dict.records, json_dict.fields)]
             ELSE [raise |-> TRUE, df |-> EmptyDataFrame,
                   outcome |-> Raised("KeyError", "_url2pandas", NoMessage)]
    ELSE IF num_request_blocks = 1
    THEN [raise |-> TRUE, df |-> EmptyDataFrame,
          outcome |-> Raised("COOPSAPIError", "_url2pandas",
                             strip(get_message(json_dict.message)))]
    ELSE IF ~json_dict.message.present
    THEN [raise |-> TRUE, df |-> EmptyDataFrame,
          outcome |-> Raised("KeyError", "_url2pandas", NoMessage)]
    ELSE IF json_dict.message = no_data_error
    THEN [raise |-> FALSE, outcome |-> NoOutcome, df |-> EmptyDataFrame]
    ELSE [raise |-> TRUE, df |-> EmptyDataFrame,
          outcome |-> Raised("COOPSAPIError", "_url2pandas",
                             strip(get_message(json_dict.message)))]

(***************************************************************************)
(* Renaming, typing and indexing of the concatenated frame (get_data from  *)
(* "Rename output DataFrame columns" on).  Values are naturals; NaN and    *)
(* NaT stand for a missing value and a missing timestamp.                  *)
(***************************************************************************)
NaN == -1

NaT == [day |-> -1, min |-> 0]

\* the renames with the water_level branch leaving "v" as it is
rename_map_keep_v(product, interval) ==
    IF product = "water_level"
    THEN {<<"f", "flags">>, <<"q", "QC">>, <<"s", "sigma">>,
          <<"t", "date_time">>}
    ELSE IF product = "hourly_height"
    THEN {<<"f", "flags">>, <<"s", "sigma">>, <<"t", "date_time">>,
          <<"v", "hourly_height">>}
    ELSE IF product = "high_low"
    THEN {<<"f", "flags">>, <<"ty", "high_low">>, <<"t", "date_time">>,
          <<"v", "water_level">>}
    ELSE IF product = "predictions"
    THEN {<<"t", "date_time">>, <<"v", "predictions">>}
    ELSE IF product = "currents"
    THEN {<<"b", "bin">>, <<"d", "direction">>, <<"s", "speed">>,
          <<"t", "date_time">>}
    ELSE IF product = "wind"
    THEN {<<"d", "dir">>, <<"dr", "compass">>, <<"f", "flags">>,
          <<"g", "gust_speed">>, <<"s", "wind_speed">>, <<"t", "date_time">>}
    ELSE {}

\* df.rename(columns=...) of each product branch, as {<<old, new>>}
rename_map(product, interval) ==
    IF product = "water_level"
    THEN {<<"f", "flags">>, <<"q", "QC">>, <<"s", "sigma">>,
          <<"t", "date_time">>, <<"v", "water_level">>}
    ELSE IF product = "hourly_height"
    THEN {<<"f", "flags">>, <<"s", "sigma">>, <<"t", "date_time">>,
          <<"v", "hourly_height">>}
    ELSE IF product = "high_low"
    THEN {<<"f", "flags">>, <<"ty", "high_low">>, <<"t", "date_time">>,
          <<"v", "water_level">>}
    ELSE IF product = "predictions"
    THEN IF interval = "h" \/ interval = None
         THEN {<<"t", "date_time">>, <<"v", "predictions">>}
         ELSE IF interval = "hilo"
         THEN {<<"t", "date_time">>, <<"v", "predictions">>, <<"type", "hi_lo">>}
         ELSE {}
    ELSE IF product = "currents"
    THEN {<<"b", "bin">>, <<"d", "direction">>, <<"s", "speed">>,
          <<"t", "date_time">>}
    ELSE IF product = "wind"
    THEN {<<"d", "dir">>, <<"dr", "compass">>, <<"f", "flags">>,
          <<"g", "gust_speed">>, <<"s", "wind_speed">>, <<"t", "date_time">>}
    ELSE IF product \in {"air_pressure", "air_temperature", "water_temperature"}
    THEN {<<"f", "flags">>, <<"t", "date_time">>, <<"v", product>>}
    ELSE {}

rename(columns, map) ==
    {IF \E m \in map : m[1] = c
     THEN (CHOOSE m \in map : m[1] = c)[2]
     ELSE c : c \in columns}

\* the columns a product branch selects or drops by name: a missing one is
\* a KeyError (columns.drop, df[...], DataFrame.drop)
branch_columns(product, interval) ==
    IF product = "water_level" THEN {"flags", "QC", "date_time"}
    ELSE IF product = "hourly_height" THEN {"flags", "date_time"}
    ELSE IF product = "high_low"
    THEN {"high_low", "date_time", "water_level", "flags"}
    ELSE IF product = "predictions"
    THEN IF interval = "hilo" THEN {"date_time", "hi_lo"} ELSE {"date_time"}
    ELSE IF product = "currents" THEN {"date_time"}
    ELSE IF product = "wind" THEN {"date_time", "flags", "compass"}
    ELSE IF product \in {"air_pressure", "air_temperature", "water_temperature"}
    THEN {"date_time", "flags"}
    ELSE {}

RECURSIVE sorted_seq(_)
sorted_seq(S) ==
    IF S = {} THEN <<>>
    ELSE LET m == CHOOSE x \in S : \A y \in S : x <= y
         IN  <<m>> \o sorted_seq(S \ {m})

\* Series.str.contains(pattern) on the two-character event types with a
\* two-character pattern
str_contains(ty, pattern) == ty = pattern

\* the rows of one event type
rows_of_type(rows, ty) == SelectSeq(rows, LAMBDA r : str_contains(r.ty, ty))

\* groupby(index).<col>.transform(max), then .loc[col == maxes]: the rows
\* holding the largest value of their calendar date (all four event types
\* are reduced with max)
keep_date_max(rows) ==
    SelectSeq(rows, LAMBDA r :
        \A k \in 1..Len(rows) : rows[k].t.day = r.t.day => rows[k].v <= r.v)

rows_on(rows, day) == SelectSeq(rows, LAMBDA r : r.t.day = day)

\* an inner join: a date without rows of one type gets no row
or_missing_inner(rows) == rows

\* an outer join gives a date without rows of one type a row of NaN / NaT
or_missing(rows) == IF rows = <<>> THEN <<[t |-> NaT, v |-> NaN, ty |-> ""]>> ELSE rows

\* the joined rows of one date: df_HH.join(df_H).join(df_L).join(df_LL),
\* every combination of the date's rows, the left frame varying slowest
joined_on(day, hh, h, l, ll) ==
    LET A == or_missing(rows_on(hh, day))
        B == or_missing(rows_on(h, day))
        C == or_missing(rows_on(l, day))
        D == or_missing(rows_on(ll, day))
    IN  [j \in 1..(Len(A) * Len(B) * Len(C) * Len(D)) |->
            LET a == A[((j - 1) \div (Len(B) * Len(C) * Len(D))) + 1]
                b == B[(((j - 1) \div (Len(C) * Len(D))) % Len(B)) + 1]
                c == C[(((j - 1) \div Len(D)) % Len(C)) + 1]
                d == D[((j - 1) % Len(D)) + 1]
            IN  [t |-> [day |-> day, min |-> 0],
                 HH_water_level |-> a.v, date_time_HH |-> a.t,
                 H_water_level |-> b.v, date_time_H |-> b.t,
                 L_water_level |-> c.v, date_time_L |-> c.t,
                 LL_water_level |-> d.v, date_time_LL |-> d.t]]

RECURSIVE joined_rows(_, _, _, _, _)
joined_rows(days, hh, h, l, ll) ==
    IF days = <<>> THEN <<>>
    ELSE joined_on(Head(days), hh, h, l, ll) \o joined_rows(Tail(days), hh, h, l, ll)

HighLowColumns ==
    {"date_time", "date_time_HH", "HH_water_level", "date_time_H",
     "H_water_level", "date_time_L", "L_water_level", "date_time_LL",
     "LL_water_level"}

\* the high_low branch: split by event type, one date per row, outer join
high_low_frame(frame) ==
    LET hh == keep_date_max(rows_of_type(frame.rows, "HH"))
        h  == keep_date_max(rows_of_type(frame.rows, "H "))
        l  == keep_date_max(rows_of_type(frame.rows, "L "))
        ll == keep_date_max(rows_of_type(frame.rows, "LL"))
        all == hh \o h \o l \o ll
        days == sorted_seq({all[k].t.day : k \in 1..Len(all)})
    IN  [columns |-> (frame.columns \ {"flags", "high_low", "water_level"})
                        \cup HighLowColumns,
         rows |-> joined_rows(days, hh, h, l, ll)]

HourKey(t) == t.day * (MINUTES_PER_DAY \div MINUTES_PER_HOUR) + (t.min \div MINUTES_PER_HOUR)

hour_floor(t) == [day |-> t.day, min |-> t.min - (t.min % MINUTES_PER_HOUR)]

\* resample("H").last() in place of first()
last_in_hour(rows, key) ==
    rows[CHOOSE k \in 1..Len(rows) :
            /\ HourKey(rows[k].t) = key
            /\ \A j \in (k + 1)..Len(rows) : HourKey(rows[j].t) # key]

first_in_hour(rows, key) ==
    rows[CHOOSE k \in 1..Len(rows) :
            /\ HourKey(rows[k].t) = key
            /\ \A j \in 1..(k - 1) : HourKey(rows[j].t) # key]

\* df.resample("H").first(): one row per hour from the first to the last
\* observed hour.  `rows` lists, in time order, the hours that hold an
\* observation (the first one of the hour); hourly = TRUE says that every
\* other hour in between is a row of NaN.
resample_first(table) ==
    LET keys == sorted_seq({HourKey(table.rows[k].t) : k \in 1..Len(table.rows)})
    IN  [table EXCEPT
            !.hourly = TRUE,
            !.rows = [n \in 1..Len(keys) |->
                        LET r == first_in_hour(table.rows, keys[n])
                        IN  [r EXCEPT !.t = hour_floor(r.t)]]]

ResampledProducts == {"water_level", "currents"}

\* len(df) of a table
RowCount(table) ==
    IF table.hourly /\ table.rows # <<>>
    THEN HourKey(table.rows[Len(table.rows)].t) - HourKey(table.rows[1].t) + 1
    ELSE Len(table.rows)

\* DataFrame.drop_duplicates() returns a new frame; the call's result is
\* not assigned, so the table is left as it is
drop_duplicates_discarded(table) == table

\* get_data from the rename on: the table it returns, or the KeyError
normalize(product, interval, frame) ==
    LET renamed == [frame EXCEPT
                       !.columns = rename(frame.columns, rename_map(product, interval))]
    IN
    IF ~(branch_columns(product, interval) \subseteq renamed.columns)
    THEN [raise |-> TRUE, table |-> NoTable]
    ELSE LET typed == IF product = "high_low" THEN high_low_frame(renamed)
                      ELSE renamed
         IN
         IF "date_time" \notin typed.columns
         THEN [raise |-> TRUE, table |-> NoTable]
         ELSE LET indexed == [index |-> "date_time",
                              columns |-> typed.columns \ {"date_time"},
                              rows |-> typed.rows, hourly |-> FALSE]
                  sampled == IF product \in ResampledProducts /\ interval = "h"
                             THEN resample_first(indexed)
                             ELSE indexed
              IN  [raise |-> FALSE, table |-> drop_duplicates_discarded(sampled)]

(***************************************************************************)
(* The calls of get_data the model makes                                   *)
(***************************************************************************)
Products ==
    {"water_level", "hourly_height", "high_low", "predictions", "currents",
     "currents_predictions", "wind", "not_a_product"}

Datums == {None, "MLLW", "navd88"}

BinNums == {None, "1"}

Intervals == {None, "h"}

UnitsValues == {"metric", "english", "imperial"}

TimeZones == {"gmt", "utc"}

\* whole-day distances from begin to end: before it, the same day, and
\* k blocks (plus part of one) of either block length
Spans ==
    {-1, 0} \cup
    {k * size + r : k \in 1..(MaxRequests - 1),
                    size \in {SHORT_BLOCK_DAYS, LONG_BLOCK_DAYS},
                    r \in {0, 27}}

BeginDates ==
    {[fmt |-> "%Y%m%d", day |-> BeginDay, min |-> 0],
     [fmt |-> "%Y%m%d %H:%M", day |-> BeginDay, min |-> 720],
     InvalidDateString}

EndDates(spans) ==
    {[fmt |-> "%m/%d/%Y", day |-> BeginDay + s, min |-> 0] : s \in spans} \cup
    {[fmt |-> "%m/%d/%Y %H:%M", day |-> BeginDay + s, min |-> 360] : s \in spans} \cup
    {InvalidDateString}

Query(begin_date, end_date, product, datum, bin_num, interval, units, time_zone) ==
    [begin_date |-> begin_date, end_date |-> end_date, product |-> product,
     datum |-> datum, bin_num |-> bin_num, interval |-> interval,
     units |-> units, time_zone |-> time_zone]

NoQuery ==
    Query(InvalidDateString, InvalidDateString, "", None, None, None, "", "")

\* how many requests a call would make if every block answered with data
planned_requests(q) ==
    LET b == parse_known_date_formats(q.begin_date)
        e == parse_known_date_formats(q.end_date)
    IN  IF b.raise \/ e.raise THEN 0
        ELSE LET days == delta_days(b.value, e.value)
             IN  loop_count(days, request_branch(days, q.product))

\* calls with every option in order, over all the dates; hourly sampling
\* is asked of the two products get_data resamples
FetchQueries ==
    {Query(b, e, p, "MLLW", "1", n, "metric", "gmt") :
        b \in BeginDates, e \in EndDates(Spans),
        p \in Products, n \in {None}} \cup
    {Query(b, e, p, "MLLW", "1", "h", "metric", "gmt") :
        b \in BeginDates, e \in EndDates(Spans), p \in ResampledProducts}

\* calls over all the options, for a one-request and a two-block span
OptionQueries ==
    {Query([fmt |-> "%Y%m%d", day |-> BeginDay, min |-> 0],
           [fmt |-> "%Y%m%d", day |-> BeginDay + s, min |-> 0],
           p, d, b, n, u, z) :
        s \in {0, 58}, p \in Products, d \in Datums, b \in BinNums,
        n \in Intervals, u \in UnitsValues, z \in TimeZones}

\* calls whose dates and options are both out of order
ParseQueries ==
    {Query(b, e, "water_level", None, None, None, "imperial", "utc") :
        b \in BeginDates,
        e \in {IsoDateString, [fmt |-> "%m/%d/%Y", day |-> BeginDay, min |-> 0]}}

\* predictions at the intervals other than hourly
PredictionQueries ==
    {Query([fmt |-> "%Y%m%d", day |-> BeginDay, min |-> 0],
           [fmt |-> "%Y%m%d", day |-> BeginDay + 1, min |-> 0],
           "predictions", "MLLW", None, n, "metric", "gmt") :
        n \in {"hilo", "30"}}

Queries ==
    {q \in FetchQueries \cup OptionQueries \cup ParseQueries \cup PredictionQueries :
        planned_requests(q) <= MaxRequests}

(***************************************************************************)
(* What the upstream API may answer to a request                           *)
(***************************************************************************)
\* the fields of the records the API returns for a product
api_fields(product, interval) ==
    IF product = "water_level" THEN {"t", "v", "s", "f", "q"}
    ELSE IF product = "hourly_height" THEN {"t", "v", "s", "f"}
    ELSE IF product = "high_low" THEN {"t", "v", "ty", "f"}
    ELSE IF product = "predictions"
    THEN IF interval = "hilo" THEN {"t", "v", "type"} ELSE {"t", "v"}
    ELSE IF product \in {"currents", "currents_predictions"} THEN {"t", "s", "d", "b"}
    ELSE IF product = "wind" THEN {"t", "s", "d", "dr", "g", "f"}
    ELSE {"t", "v", "f"}

ErrorMessages ==
    {no_data_error,
     [no_data_error EXCEPT !.lpad = 1, !.rpad = 1],
     [present |-> TRUE, lpad |-> 1, rpad |-> 0, text |-> "Wrong Datum"],
     NoMessage}

\* a response is its HTTP status, whether its body is JSON, and the body
DataPayload(product, interval, records) ==
    [status |-> "200", json |-> TRUE, error |-> FALSE, message |-> NoMessage,
     key |-> IF product = "predictions" THEN "predictions" ELSE "data",
     records |-> records, fields |-> api_fields(product, interval)]

ErrorPayload(message) ==
    [status |-> "200", json |-> TRUE, error |-> TRUE, message |-> message,
     key |-> "error", records |-> <<>>, fields |-> {}]

\* a body that is not JSON (the error page of a gateway)
NotJsonPayload ==
    [status |-> "200", json |-> FALSE, error |-> FALSE, message |-> NoMessage,
     key |-> "", records |-> <<>>, fields |-> {}]

\* responses whose status is not 200: an error page, an error payload and
\* a data payload
FailedResponses(url, record) ==
    {[NotJsonPayload EXCEPT !.status = "503"],
     [ErrorPayload([present |-> TRUE, lpad |-> 0, rpad |-> 0,
                    text |-> "Bad Request"]) EXCEPT !.status = "400"],
     [DataPayload(url.product, url.interval, <<record>>) EXCEPT !.status = "500"]}

\* high/low events of a range of a day or more: on its first day a higher
\* high and two lows, the later one the lower; on the next day a lower low
HighLowEvents(first, last, n) ==
    IF TotalMinutes(last) - TotalMinutes(first) < MINUTES_PER_DAY THEN {}
    ELSE {<<[t |-> first, v |-> n + 1, ty |-> "HH"],
            [t |-> [first EXCEPT !.min = @ + 3 * MINUTES_PER_HOUR], v |-> n + 1, ty |-> "L "],
            [t |-> [first EXCEPT !.min = @ + 6 * MINUTES_PER_HOUR], v |-> n, ty |-> "L "],
            [t |-> plus_days(first, 1), v |-> n, ty |-> "LL"]>>}

\* response.json() of the n-th request: an error, or records whose value
\* is n at the first instant of the requested range, or at the first and
\* (when it is later) the last, or no record at all; for high_low also the
\* events above; or a response whose status is not 200
Responses(url, n) ==
    LET first == strptime(url.begin_date)
        last == strptime(url.end_date)
        high_low == url.product = "high_low"
        r1 == [t |-> first, v |-> n, ty |-> IF high_low THEN "HH" ELSE ""]
        r2 == [t |-> last, v |-> n, ty |-> IF high_low THEN "L " ELSE ""]
        both == IF TotalMinutes(first) < TotalMinutes(last)
                THEN <<r1, r2>> ELSE <<r1>>
    IN  {DataPayload(url.product, url.interval, rs) :
            rs \in {<<>>, <<r1>>, both} \cup
                   (IF high_low THEN HighLowEvents(first, last, n) ELSE {})}
        \cup {ErrorPayload(m) : m \in ErrorMessages}
        \cup FailedResponses(url, r1)

(***************************************************************************)
(* Station construction (__init__, get_metadata, get_data_inventory)       *)
(*                                                                         *)
(* A metadata payload is a function from the keys it holds to their        *)
(* values; the value of key k in the payload of station record v is        *)
(* [key |-> k, of |-> v].  A station is [id, units, metadata, attrs,       *)
(* has_inventory, data_inventory]: attrs maps each attribute get_metadata  *)
(* has set to its value, has_inventory says whether data_inventory is set. *)
(***************************************************************************)
\* the keys get_metadata tests for, in the order of its if / elif chain
VariantKeys == <<"datums", "tidepredoffsets", "bins", "currbin">>

\* self.<attribute> = station_metadata[<key>] of each branch, in order
\* (lat_lon reads "lat" and "lng")
Assignments(variant) ==
    IF variant = "datums"
    THEN <<<<"affiliations", "affiliations">>, <<"benchmarks", "benchmarks">>,
           <<"datums", "datums">>, <<"disclaimers", "disclaimers">>,
           <<"flood_levels", "floodlevels">>, <<"greatlakes", "greatlakes">>,
           <<"tidal_constituents", "harmonicConstituents">>,
           <<"lat_lon", "lat">>, <<"name", "name">>,
           <<"nearby_stations", "nearby">>, <<"notices", "notices">>,
           <<"observe_dst", "observedst">>, <<"ports_code", "portscode">>,
           <<"products", "products">>, <<"sensors", "sensors">>,
           <<"shef_code", "shefcode">>, <<"state", "state">>,
           <<"storm_surge", "stormsurge">>, <<"tidal", "tidal">>,
           <<"tide_type", "tideType">>, <<"timezone", "timezone">>,
           <<"timezone_corr", "timezonecorr">>>>
    ELSE IF variant = "tidepredoffsets"
    THEN <<<<"state", "state">>, <<"tide_pred_offsets", "tidepredoffsets">>,
           <<"type", "type">>, <<"time_meridian", "timemeridian">>,
           <<"reference_id", "reference_id">>,
           <<"timezone_corr", "timezonecorr">>, <<"name", "name">>,
           <<"lat_lon", "lat">>, <<"affiliations", "affiliations">>,
           <<"ports_code", "portscode">>, <<"products", "products">>,
           <<"disclaimers", "disclaimers">>, <<"notices", "notices">>,
           <<"tide_type", "tideType">>>>
    ELSE IF variant = "bins"
    THEN <<<<"project", "project">>, <<"deployed", "deployed">>,
           <<"retrieved", "retrieved">>,
           <<"timezone_offset", "timezone_offset">>,
           <<"observe_dst", "observedst">>,
           <<"project_type", "project_type">>, <<"noaa_chart", "noaachart">>,
           <<"deployments", "deployments">>, <<"bins", "bins">>,
           <<"name", "name">>, <<"lat_lon", "lat">>,
           <<"affiliations", "affiliations">>, <<"ports_code", "portscode">>,
           <<"products", "products">>, <<"disclaimers", "disclaimers">>,
           <<"notices", "notices">>, <<"tide_type", "tideType">>>>
    ELSE IF variant = "currbin"
    THEN <<<<"current_pred_offsets", "currentpredictionoffsets">>,
           <<"curr_bin", "currbin">>, <<"type", "type">>,
           <<"depth", "depth">>, <<"depth_type", "depthType">>,
           <<"name", "name">>, <<"lat_lon", "lat">>,
           <<"affiliations", "affiliations">>, <<"ports_code", "portscode">>,
           <<"products", "products">>, <<"disclaimers", "disclaimers">>,
           <<"notices", "notices">>, <<"tide_type", "tideType">>>>
    ELSE <<>>

\* the payload keys one assignment reads
keys_read(assignment) ==
    IF assignment[1] = "lat_lon" THEN {"lat", "lng"} ELSE {assignment[2]}

\* the value one assignment stores
value_read(assignment, station_metadata) ==
    IF assignment[1] = "lat_lon"
    THEN [lat |-> station_metadata["lat"], lon |-> station_metadata["lng"]]
    ELSE station_metadata[assignment[2]]

NoPayload == [k \in {} |-> None]

NoAttributes == [a \in {} |-> None]

NoInventory == [name \in {} |-> None]

NoStation ==
    [id |-> None, units |-> None, metadata |-> NoPayload,
     attrs |-> NoAttributes, has_inventory |-> FALSE,
     data_inventory |-> NoInventory]

\* the chain with the current-station keys tested before the others
select_variant_reversed(station_metadata) ==
    IF \E n \in 1..Len(VariantKeys) : VariantKeys[n] \in DOMAIN station_metadata
    THEN VariantKeys[CHOOSE n \in 1..Len(VariantKeys) :
            /\ VariantKeys[n] \in DOMAIN station_metadata
            /\ \A m \in (n + 1)..Len(VariantKeys) :
                  VariantKeys[m] \notin DOMAIN station_metadata]
    ELSE None

\* the branch of the if / elif chain a payload takes (None: no branch)
select_variant(station_metadata) ==
    IF \E n \in 1..Len(VariantKeys) : VariantKeys[n] \in DOMAIN station_metadata
    THEN VariantKeys[CHOOSE n \in 1..Len(VariantKeys) :
            /\ VariantKeys[n] \in DOMAIN station_metadata
            /\ \A m \in 1..(n - 1) : VariantKeys[m] \notin DOMAIN station_metadata]
    ELSE None

\* get_metadata once the payload is in: the branch's assignments run in
\* order; one that reads a key the payload lacks raises KeyError and leaves
\* the later ones undone
get_metadata(st, station_metadata) ==
    LET variant == select_variant(station_metadata)
        todo == Assignments(variant)
        missing == {n \in 1..Len(todo) :
                       ~(keys_read(todo[n]) \subseteq DOMAIN station_metadata)}
        done == IF missing = {} THEN 1..Len(todo)
                ELSE {n \in 1..Len(todo) : \A m \in missing : n < m}
        index_of(a) == CHOOSE n \in done : todo[n][1] = a
    IN  IF variant = None THEN [raise |-> FALSE, station |-> st]
        ELSE [raise |-> missing # {},
              station |-> [st EXCEPT
                  !.metadata = station_metadata,
                  !.attrs = [a \in {todo[n][1] : n \in done} |->
                                value_read(todo[index_of(a)], station_metadata)]]]

\* get_data_inventory with end_date taken from the name's first entry
get_data_inventory_first_end(st, response) ==
    LET names == [n \in 1..Len(response) |-> response[n].name]
        unique_names == {names[n] : n \in 1..Len(names)}
        idxs(name) == {n \in 1..Len(names) : names[n] = name}
        inventory_dict ==
            [name \in unique_names |->
                [start_date |-> response[SetMin(idxs(name))].first,
                 end_date |-> response[SetMin(idxs(name))].last]]
    IN  [st EXCEPT !.has_inventory = TRUE, !.data_inventory = inventory_dict]

\* get_data_inventory once the SOAP response is in: per parameter name the
\* first entry's `first` and the last entry's `last`
get_data_inventory(st, response) ==
    LET names == [n \in 1..Len(response) |-> response[n].name]
        unique_names == {names[n] : n \in 1..Len(names)}
        idxs(name) == {n \in 1..Len(names) : names[n] = name}
        inventory_dict ==
            [name \in unique_names |->
                [start_date |-> response[SetMin(idxs(name))].first,
                 end_date |-> response[SetMax(idxs(name))].last]]
    IN  [st EXCEPT !.has_inventory = TRUE, !.data_inventory = inventory_dict]

\* every payload key a branch reads
PayloadKeys(variant) ==
    UNION {keys_read(Assignments(variant)[n]) : n \in 1..Len(Assignments(variant))}

Payload(keys, v) == [k \in keys |-> [key |-> k, of |-> v]]

\* the payloads of the four kinds of station, of a water-level station that
\* also lists tide prediction offsets, and of one without "greatlakes"
PayloadShapes ==
    {PayloadKeys(VariantKeys[n]) : n \in 1..Len(VariantKeys)} \cup
    {PayloadKeys("datums") \cup PayloadKeys("tidepredoffsets"),
     PayloadKeys("datums") \ {"greatlakes"}}

StationRecords == {1, 2}

\* requests.get(metadata_url) ... json_dict["stations"][0]: what it raises,
\* or the payload
MetadataResponses ==
    {[error |-> TRUE, exc |-> e, payload |-> NoPayload] :
        e \in {"ConnectionError", "IndexError"}} \cup
    {[error |-> FALSE, exc |-> "", payload |-> Payload(keys, v)] :
        keys \in PayloadShapes, v \in StationRecords}

Parameters ==
    {[name |-> n, first |-> f, last |-> f + 2] :
        n \in {"Wind", "Water Level"}, f \in {1, 2}}

\* client.service.getDataInventory(self.id)["parameter"]: what it raises,
\* or the list of entries
InventoryResponses ==
    {[error |-> TRUE, exc |-> e, parameter |-> <<>>] :
        e \in {"Fault", "TypeError"}} \cup
    {[error |-> FALSE, exc |-> "", parameter |-> ps] :
        ps \in UNION {[1..n -> Parameters] : n \in 0..MaxParameters}}

StationIds == {"9447130", "PUG1515"}

\* self.data as an earlier get_data call of the station left it
PreviousTable ==
    [index |-> "date_time", columns |-> {"water_level", "sigma", "flags", "QC"},
     rows |-> <<[t |-> [day |-> 0, min |-> 0], v |-> 0, ty |-> ""]>>,
     hourly |-> FALSE]

\* Station("9447130"): a water-level station with its inventory
SeattleStation ==
    get_data_inventory(
        get_metadata([NoStation EXCEPT !.id = "9447130", !.units = "metric"],
                     Payload(PayloadKeys("datums"), 1)).station,
        <<[name |-> "Wind", first |-> 1, last |-> 3]>>)

(***************************************************************************)
(* get_stations_from_bbox                                                  *)
(*                                                                         *)
(* Coordinates are integers; a coordinate list is a sequence of them.  A   *)
(* station of the upstream list is [id, lat, lng].                         *)
(***************************************************************************)
NoCoords == [lat_coords |-> <<>>, lon_coords |-> <<>>]

\* if c[0] > c[1]: c[0], c[1] = c[1], c[0]
ordered(c) == IF c[1] > c[2] THEN <<c[2], c[1]>> ELSE c

\* the two chained comparisons with <= in place of <
in_bbox_inclusive(station_dict, lat_coords, lon_coords) ==
    /\ lon_coords[1] <= station_dict.lng /\ station_dict.lng <= lon_coords[2]
    /\ lat_coords[1] <= station_dict.lat /\ station_dict.lat <= lat_coords[2]

\* lon_coords[0] < lng < lon_coords[1] and lat_coords[0] < lat < lat_coords[1]
in_bbox(station_dict, lat_coords, lon_coords) ==
    /\ lon_coords[1] < station_dict.lng /\ station_dict.lng < lon_coords[2]
    /\ lat_coords[1] < station_dict.lat /\ station_dict.lat < lat_coords[2]

\* get_stations_from_bbox once the station list is in: ValueError, or the
\* two lists put in order (in place) and the ids of the stations inside
stations_from_bbox(stations, lat_coords, lon_coords) ==
    IF Len(lat_coords) # 2 \/ Len(lon_coords) # 2
    THEN [raise |-> TRUE, lat_coords |-> lat_coords, lon_coords |-> lon_coords,
          station_list |-> <<>>]
    ELSE LET lat == ordered(lat_coords)
             lon == ordered(lon_coords)
             inside == SelectSeq(stations, LAMBDA st : in_bbox(st, lat, lon))
         IN  [raise |-> FALSE, lat_coords |-> lat, lon_coords |-> lon,
              station_list |-> [n \in 1..Len(inside) |-> inside[n].id]]

Coordinates == {0, 2, 4}

CoordLists == UNION {[1..n -> Coordinates] : n \in 0..MaxCoords}

\* stations inside, on the edge of and outside the boxes the lists span
UpstreamStations ==
    <<[id |-> "8443970", lat |-> 1, lng |-> 1],
      [id |-> "8447930", lat |-> 2, lng |-> 1],
      [id |-> "9447130", lat |-> 3, lng |-> 3],
      [id |-> "8454000", lat |-> 1, lng |-> 3]>>

\* requests.get(data_url) ... response.json(): what it raises, or the list
StationsResponses ==
    {[error |-> TRUE, exc |-> "ConnectionError", stations |-> <<>>]} \cup
    {[error |-> FALSE, exc |-> "", stations |-> l] :
        l \in {<<>>, UpstreamStations,
               [n \in 1..Len(UpstreamStations) |->
                   UpstreamStations[Len(UpstreamStations) + 1 - n]]}}

(***************************************************************************)
(* State machine                                                           *)
(***************************************************************************)
Days == delta_days(begin_datetime, end_datetime)

Branch == request_branch(Days, query.product)

Init ==
    /\ pc = "idle"
    /\ query = NoQuery
    /\ begin_datetime = NoDatetime
    /\ end_datetime = NoDatetime
    /\ i = 0
    /\ df = EmptyDataFrame
    /\ requests = <<>>
    /\ responses = <<>>
    /\ outcome = NoOutcome
    /\ data \in {NoTable, PreviousTable}
    /\ station = SeattleStation
    /\ init_args = [id |-> "9447130", units |-> "metric"]
    /\ fetched = <<"metadata", "inventory">>
    /\ coords_given = NoCoords
    /\ coords = NoCoords
    /\ station_list = <<>>

\* get_data is called: both dates are parsed, delta is taken
Call(q) ==
    /\ pc = "idle"
    /\ query' = q
    /\ LET b == parse_known_date_formats(q.begin_date)
           e == parse_known_date_formats(q.end_date)
       IN  IF b.raise \/ e.raise
           THEN /\ pc' = "done"
                /\ outcome' = RaisedInvalidDate(IF b.raise THEN q.begin_date
                                                ELSE q.end_date)
                /\ UNCHANGED <<begin_datetime, end_datetime>>
           ELSE /\ pc' = "request"
                /\ begin_datetime' = b.value
                /\ end_datetime' = e.value
                /\ UNCHANGED outcome
    /\ UNCHANGED <<i, df, requests, responses, data,
                   station, init_args, fetched,
                   coords_given, coords, station_list>>

\* RequestBlock with the GET sent before the arguments are checked
RequestBlock_send_first ==
    /\ pc = "request"
    /\ LET dates == block_dates(Branch, i, query.begin_date, query.end_date,
                                begin_datetime, end_datetime)
           built == build_request_url(dates.begin_date, dates.end_date,
                                      query.product, query.datum, query.bin_num,
                                      query.interval, query.units, query.time_zone)
       IN  /\ requests' = Append(requests, built.url)
           /\ IF built.raise
              THEN /\ pc' = "done"
                   /\ outcome' = Raised("ValueError", "_build_request_url", NoMessage)
              ELSE /\ pc' = "await"
                   /\ UNCHANGED outcome
    /\ UNCHANGED <<query, begin_datetime, end_datetime, i, df, responses, data,
                   station, init_args, fetched,
                   coords_given, coords, station_list>>

\* the next call of _build_request_url and, unless it raises, the GET
RequestBlock ==
    /\ pc = "request"
    /\ LET dates == block_dates(Branch, i, query.begin_date, query.end_date,
                                begin_datetime, end_datetime)
           built == build_request_url(dates.begin_date, dates.end_date,
                                      query.product, query.datum, query.bin_num,
                                      query.interval, query.units, query.time_zone)
       IN  IF built.raise
           THEN /\ pc' = "done"
                /\ outcome' = Raised("ValueError", "_build_request_url", NoMessage)
                /\ UNCHANGED requests
           ELSE /\ pc' = "await"
                /\ requests' = Append(requests, built.url)
                /\ UNCHANGED outcome
    /\ UNCHANGED <<query, begin_datetime, end_datetime, i, df, responses, data,
                   station, init_args, fetched,
                   coords_given, coords, station_list>>

\* the response arrives: _url2pandas turns it into the block's frame, which
\* is concatenated, or raises
ReceiveBlock ==
    /\ pc = "await"
    /\ \E json_dict \in Responses(requests[Len(requests)], Len(requests)) :
          LET got == url2pandas(json_dict, query.product,
                                num_request_blocks_arg(Days, Branch))
          IN  /\ responses' = Append(responses, json_dict)
              /\ IF got.raise
                 THEN /\ pc' = "done"
                      /\ outcome' = got.outcome
                      /\ UNCHANGED <<i, df>>
                 ELSE /\ df' = concat(df, got.df)
                      /\ i' = i + 1
                      /\ pc' = IF i + 1 < loop_count(Days, Branch)
                               THEN "request" ELSE "normalize"
                      /\ UNCHANGED outcome
    /\ UNCHANGED <<query, begin_datetime, end_datetime, requests, data,
                   station, init_args, fetched,
                   coords_given, coords, station_list>>

\* Finish with self.data assigned the concatenated frame before the rename
Finish_store_first ==
    /\ pc = "normalize"
    /\ LET n == normalize(query.product, query.interval, df)
       IN  IF n.raise
           THEN /\ outcome' = Raised("KeyError", "get_data", NoMessage)
                /\ data' = [index |-> "", columns |-> df.columns,
                            rows |-> df.rows, hourly |-> FALSE]
           ELSE /\ outcome' = Returned(n.table)
                /\ data' = n.table
    /\ pc' = "done"
    /\ UNCHANGED <<query, begin_datetime, end_datetime, i, df, requests, responses,
                   station, init_args, fetched,
                   coords_given, coords, station_list>>

\* every block is in: rename, index, resample, store in self.data, return
Finish ==
    /\ pc = "normalize"
    /\ LET n == normalize(query.product, query.interval, df)
       IN  IF n.raise
           THEN /\ outcome' = Raised("KeyError", "get_data", NoMessage)
                /\ UNCHANGED data
           ELSE /\ outcome' = Returned(n.table)
                /\ data' = n.table
    /\ pc' = "done"
    /\ UNCHANGED <<query, begin_datetime, end_datetime, i, df, requests, responses,
                   station, init_args, fetched,
                   coords_given, coords, station_list>>

\* a caller calls get_data with one of the calls above
GetData == pc = "idle" /\ \E q \in Queries : Call(q)

Next ==
    \/ GetData
    \/ RequestBlock
    \/ ReceiveBlock
    \/ Finish

Spec == Init /\ [][Next]_vars

(***************************************************************************)
(* State machine of Station construction                                   *)
(***************************************************************************)
InitStation ==
    /\ pc = "unborn"
    /\ query = NoQuery
    /\ begin_datetime = NoDatetime
    /\ end_datetime = NoDatetime
    /\ i = 0
    /\ df = EmptyDataFrame
    /\ requests = <<>>
    /\ responses = <<>>
    /\ outcome = NoOutcome
    /\ data = NoTable
    /\ station = NoStation
    /\ init_args = [id |-> None, units |-> None]
    /\ fetched = <<>>
    /\ coords_given = NoCoords
    /\ coords = NoCoords
    /\ station_list = <<>>

\* Station(id, units): __init__ stores its two arguments
StationInit(id, units) ==
    /\ pc = "unborn"
    /\ init_args' = [id |-> id, units |-> units]
    /\ station' = [station EXCEPT !.id = id, !.units = units]
    /\ pc' = "metadata"
    /\ UNCHANGED <<query, begin_datetime, end_datetime, i, df, requests,
                   responses, outcome, data, fetched, coords_given, coords, station_list>>

Construct ==
    \E id \in StationIds, units \in {"metric", "english"} : StationInit(id, units)

\* self.get_metadata(): the GET and the attributes set from its payload
GetMetadata ==
    /\ pc = "metadata"
    /\ fetched' = Append(fetched, "metadata")
    /\ \E response \in MetadataResponses :
          /\ responses' = Append(responses, response)
          /\ IF response.error
             THEN /\ pc' = "failed"
                  /\ outcome' = Raised(response.exc, "get_metadata", NoMessage)
                  /\ UNCHANGED station
             ELSE LET got == get_metadata(station, response.payload)
                  IN  /\ station' = got.station
                      /\ pc' = IF got.raise THEN "failed" ELSE "inventory"
                      /\ outcome' = IF got.raise
                                    THEN Raised("KeyError", "get_metadata", NoMessage)
                                    ELSE outcome
    /\ UNCHANGED <<query, begin_datetime, end_datetime, i, df, requests, data,
                   init_args, coords_given, coords, station_list>>

\* self.get_data_inventory() outside any try: its failure ends __init__
GetDataInventory_propagate ==
    /\ pc = "inventory"
    /\ fetched' = Append(fetched, "inventory")
    /\ \E response \in InventoryResponses :
          /\ responses' = Append(responses, response)
          /\ IF response.error
             THEN /\ pc' = "failed"
                  /\ outcome' = Raised(response.exc, "get_data_inventory", NoMessage)
                  /\ UNCHANGED station
             ELSE /\ pc' = "constructed"
                  /\ station' = get_data_inventory(station, response.parameter)
                  /\ UNCHANGED outcome
    /\ UNCHANGED <<query, begin_datetime, end_datetime, i, df, requests, data,
                   init_args, coords_given, coords, station_list>>

\* try: self.get_data_inventory() / except: pass
GetDataInventory ==
    /\ pc = "inventory"
    /\ fetched' = Append(fetched, "inventory")
    /\ \E response \in InventoryResponses :
          /\ responses' = Append(responses, response)
          /\ station' = IF response.error THEN station
                        ELSE get_data_inventory(station, response.parameter)
    /\ pc' = "constructed"
    /\ UNCHANGED <<query, begin_datetime, end_datetime, i, df, requests, data,
                   outcome, init_args, coords_given, coords, station_list>>

NextStation ==
    \/ Construct
    \/ GetMetadata
    \/ GetDataInventory

SpecStation == InitStation /\ [][NextStation]_vars

(***************************************************************************)
(* State machine of get_stations_from_bbox                                 *)
(***************************************************************************)
InitBbox ==
    /\ pc = "idle"
    /\ query = NoQuery
    /\ begin_datetime = NoDatetime
    /\ end_datetime = NoDatetime
    /\ i = 0
    /\ df = EmptyDataFrame
    /\ requests = <<>>
    /\ responses = <<>>
    /\ outcome = NoOutcome
    /\ data = NoTable
    /\ station = NoStation
    /\ init_args = [id |-> None, units |-> None]
    /\ fetched = <<>>
    /\ coords_given = NoCoords
    /\ coords = NoCoords
    /\ station_list = <<>>

\* get_stations_from_bbox(lat_coords, lon_coords) is called: the GET of the
\* station list goes out first
BboxCall(lat_coords, lon_coords) ==
    /\ pc = "idle"
    /\ coords_given' = [lat_coords |-> lat_coords, lon_coords |-> lon_coords]
    /\ coords' = [lat_coords |-> lat_coords, lon_coords |-> lon_coords]
    /\ fetched' = Append(fetched, "stations")
    /\ pc' = "await_stations"
    /\ UNCHANGED <<query, begin_datetime, end_datetime, i, df, requests,
                   responses, outcome, data, station, init_args, station_list>>

GetStationsFromBbox ==
    pc = "idle" /\ \E lat_coords, lon_coords \in CoordLists :
                      BboxCall(lat_coords, lon_coords)

\* the station list arrives: the length check, the ordering, the search
ReceiveStations ==
    /\ pc = "await_stations"
    /\ \E response \in StationsResponses :
          /\ responses' = Append(responses, response)
          /\ IF response.error
             THEN /\ outcome' = Raised(response.exc, "get_stations_from_bbox", NoMessage)
                  /\ UNCHANGED <<coords, station_list>>
             ELSE LET got == stations_from_bbox(response.stations,
                                                coords.lat_coords, coords.lon_coords)
                  IN  /\ outcome' = IF got.raise
                                    THEN Raised("ValueError", "get_stations_from_bbox",
                                                NoMessage)
                                    ELSE Returned(NoTable)
                      /\ coords' = [lat_coords |-> got.lat_coords,
                                    lon_coords |-> got.lon_coords]
                      /\ station_list' = got.station_list
    /\ pc' = "done"
    /\ UNCHANGED <<query, begin_datetime, end_datetime, i, df, requests, data,
                   station, init_args, fetched, coords_given>>

NextBbox ==
    \/ GetStationsFromBbox
    \/ ReceiveStations

SpecBbox == InitBbox /\ [][NextBbox]_vars

(***************************************************************************)
(* Properties                                                              *)
(***************************************************************************)
\* both dates of the call parsed (Days is the call's whole-day span)
DatesParsed == pc # "idle" /\ outcome.at # "_parse_known_date_formats"

\* every block of the call was requested and answered without a raise
FetchComplete ==
    \/ pc = "normalize"
    \/ pc = "done" /\ (outcome.kind = "returned" \/ outcome.at = "get_data")

\* the block length the product's span is measured against
BlockSize == IF query.product \in {"hourly_height", "high_low"} THEN 365 ELSE 31

\* C1: a call whose whole-day span is <= 31 days, or <= 365 days for
\* hourly_height / high_low, never issues a second request, and once its
\* arguments passed the checks it has issued exactly one, whose begin and
\* end are the instants of the call's begin_date and end_date
C1_SingleRequest ==
    (DatesParsed /\ Days <= BlockSize) =>
        /\ Len(requests) <= 1
        /\ (pc \in {"await", "normalize"} \/ (pc = "done" /\ outcome.exc # "ValueError"))
              => /\ Len(requests) = 1
                 /\ strptime(requests[1].begin_date) = strptime(query.begin_date)
                 /\ strptime(requests[1].end_date) = strptime(query.end_date)

\* a 58-day hourly_height call returned after its one request
C1_Witness ==
    /\ pc = "done" /\ outcome.kind = "returned" /\ Len(requests) = 1
    /\ query.product = "hourly_height" /\ Days = 58

\* C2: a call whose whole-day span exceeds the block size (31 days; 365 for
\* hourly_height / high_low) issues floor(span / size) + 1 requests when no
\* block raises; request k (from 0) begins on day begin + k*size and ends on
\* the day of min(begin + (k+1)*size days, end), never after the original
\* end; a midnight-to-midnight span of 89 days of a 31-day product gives
\* requests of 31, 31 and 27 days
C2_BlockRequests ==
    (DatesParsed /\ Days > BlockSize) =>
        LET n == (Days \div BlockSize) + 1
            length(k) == strptime(requests[k].end_date).day
                             - strptime(requests[k].begin_date).day
        IN  /\ Len(requests) <= n
            /\ FetchComplete => Len(requests) = n
            /\ \A k \in 1..Len(requests) :
                  LET block_end == plus_days(begin_datetime, k * BlockSize)
                      clipped == IF TotalMinutes(block_end) < TotalMinutes(end_datetime)
                                 THEN block_end ELSE end_datetime
                  IN  /\ strptime(requests[k].begin_date).day
                            = begin_datetime.day + (k - 1) * BlockSize
                      /\ strptime(requests[k].end_date).day = clipped.day
                      /\ TotalMinutes(strptime(requests[k].end_date))
                            <= TotalMinutes(end_datetime)
            /\ (FetchComplete /\ BlockSize = 31 /\ Days = 89
                    /\ begin_datetime.min = 0 /\ end_datetime.min = 0)
                  => <<length(1), length(2), length(3)>> = <<31, 31, 27>>

\* the 89-day water_level call returned after its three requests
C2_Witness ==
    /\ pc = "done" /\ outcome.kind = "returned"
    /\ query.product = "water_level" /\ Days = 89
    /\ begin_datetime.min = 0 /\ end_datetime.min = 0
    /\ Len(requests) = 3

\* C7: whenever get_data has failed with ValueError (an unparsable date, a
\* missing datum, a missing bin_num) no request was issued in that call
C7_ValidationBeforeRequests ==
    outcome.exc = "ValueError" => requests = <<>>

\* a multi-block currents call without bin_num was rejected by
\* _build_request_url
C7_Witness ==
    /\ pc = "done" /\ outcome.exc = "ValueError"
    /\ outcome.at = "_build_request_url"
    /\ query.product = "currents" /\ query.bin_num = None /\ Days > 31

\* the k-th response is the known no-data error, word for word
IsNoDataError(k) == responses[k].error /\ responses[k].message = no_data_error

\* C3: in a fetch of more than one block request, a block answered with
\* the known no-data message does not make get_data fail with the upstream
\* error: the block counts as empty and the fetch goes on
C3_NoDataBlockAbsorbed ==
    (DatesParsed /\ Days > BlockSize) =>
        \A k \in 1..Len(responses) :
            IsNoDataError(k) =>
                ~(/\ pc = "done" /\ outcome.kind = "raised"
                  /\ outcome.at = "_url2pandas" /\ Len(responses) = k)

\* C4: every error payload other than the no-data message inside a fetch of
\* more than one block request ends the call at once with the upstream
\* error (COOPSAPIError), no later block being requested
C4_ErrorsPropagated ==
    DatesParsed =>
        \A k \in 1..Len(responses) :
            (responses[k].error /\ ~(Days > BlockSize /\ IsNoDataError(k))) =>
                /\ pc = "done"
                /\ outcome.kind = "raised" /\ outcome.exc = "COOPSAPIError"
                /\ Len(responses) = k /\ Len(requests) = k

\* C5: the table get_data returns never holds two rows with the same
\* timestamp
C5_NoDuplicateTimestamps ==
    (pc = "done" /\ outcome.kind = "returned") =>
        \A a, b \in 1..Len(data.rows) :
            a # b => data.rows[a].t # data.rows[b].t

\* C6: when every block was answered and together they hold no row,
\* get_data fails with the "no data found" condition, never with another
\* error and never by returning an empty table
C6_EmptyResultIsNoData ==
    (pc = "done" /\ FetchComplete /\ df.rows = <<>>) =>
        (outcome.kind = "raised" /\ outcome.exc = "NoDataFound")

\* C8: a call for water_level, hourly_height or high_low without a datum,
\* or with the datum "navd88", fails with ValueError
C8_DatumChecked ==
    (pc = "done" /\ DatesParsed /\ query.product \in DatumProducts
        /\ query.datum \in {None, "navd88"})
    => (outcome.kind = "raised" /\ outcome.exc = "ValueError")

\* C9: a call for currents or currents_predictions without bin_num fails
\* with ValueError
C9_BinRequired ==
    (pc = "done" /\ DatesParsed /\ query.bin_num = None
        /\ query.product \in {"currents", "currents_predictions"})
    => (outcome.kind = "raised" /\ outcome.exc = "ValueError")

\* C10: a call whose product, units or time_zone is outside the supported
\* sets fails with ValueError, and a call whose three values are inside
\* them (datum and bin_num given) does not
C10_OptionsChecked ==
    (pc = "done" /\ DatesParsed) =>
        LET outside == \/ query.product = "not_a_product"
                       \/ query.units \notin {"metric", "english"}
                       \/ query.time_zone \notin {"gmt", "lst", "lst_ldt"}
        IN  /\ outside => (outcome.kind = "raised" /\ outcome.exc = "ValueError")
            /\ (~outside /\ query.datum # None /\ query.bin_num # None)
                  => outcome.exc # "ValueError"

\* C11: a call for hourly_height (a product whose sampling interval is
\* fixed) that supplies an interval issues no request and fails with
\* ValueError
C11_FixedIntervalRejected ==
    (DatesParsed /\ query.product = "hourly_height" /\ query.interval # None
        /\ query.datum # None)
    => /\ requests = <<>>
       /\ pc = "done" => (outcome.kind = "raised" /\ outcome.exc = "ValueError")

\* C12: a date string in one of the four known layouts is parsed to the
\* datetime it denotes and any other string raises ValueError;
\* get_data parses begin_date, then end_date, before it does anything else,
\* so the error quotes the first bad string and nothing was requested
C12_DatesParsedFirst ==
    pc # "idle" =>
        LET known == {"%Y%m%d", "%Y%m%d %H:%M", "%m/%d/%Y", "%m/%d/%Y %H:%M"}
            bad_begin == query.begin_date.fmt \notin known
            bad_end == query.end_date.fmt \notin known
            failed == outcome.at = "_parse_known_date_formats"
        IN  /\ failed <=> (bad_begin \/ bad_end)
            /\ failed =>
                /\ pc = "done" /\ outcome.kind = "raised"
                /\ outcome.exc = "ValueError"
                /\ outcome.dt_string = IF bad_begin THEN query.begin_date
                                       ELSE query.end_date
                /\ requests = <<>> /\ i = 0 /\ df = EmptyDataFrame
            /\ ~failed =>
                /\ begin_datetime = [day |-> query.begin_date.day,
                                     min |-> query.begin_date.min]
                /\ end_datetime = [day |-> query.end_date.day,
                                   min |-> query.end_date.min]

C12_Witness ==
    /\ pc = "request" /\ requests = <<>>
    /\ query.begin_date.fmt = "%Y%m%d %H:%M" /\ begin_datetime.min = 720
    /\ query.end_date.fmt = "%m/%d/%Y %H:%M" /\ end_datetime.min = 360

\* a water_level call has returned its table
WaterLevelReturned ==
    pc = "done" /\ outcome.kind = "returned" /\ query.product = "water_level"

AllBlocksHoldRecords ==
    /\ responses # <<>>
    /\ \A k \in 1..Len(responses) :
          /\ responses[k].status = "200" /\ ~responses[k].error
          /\ responses[k].records # <<>>

\* C14: a call for a supported product whose requests were all answered
\* with records returns a table indexed by the observation timestamp, the
\* timestamp no longer among its columns
C14_EveryProductReturnsTable ==
    (pc = "done" /\ FetchComplete /\ AllBlocksHoldRecords
        /\ query.product # "not_a_product")
    => /\ outcome.kind = "returned"
       /\ data.index = "date_time"
       /\ data.columns \cap {"date_time", "t"} = {}

\* a high_low call has returned its table
HighLowReturned ==
    pc = "done" /\ outcome.kind = "returned" /\ query.product = "high_low"

\* the values the upstream gave for one event type on one calendar date
EventValues(day, ty) ==
    {df.rows[k].v : k \in {j \in 1..Len(df.rows) :
                              df.rows[j].t.day = day /\ df.rows[j].ty = ty}}

\* C15: the table of a high_low call has one row per calendar date, and
\* the row holds, for each event type that occurred on its date, the
\* largest of the date's HH / H values and the smallest of its L / LL values
C15_OneRowPerDateExtremes ==
    HighLowReturned =>
        /\ \A j, k \in 1..Len(data.rows) :
              j # k => data.rows[j].t.day # data.rows[k].t.day
        /\ \A k \in 1..Len(data.rows) :
              LET row == data.rows[k]
                  d == row.t.day
              IN  /\ EventValues(d, "HH") # {} =>
                         row.HH_water_level = SetMax(EventValues(d, "HH"))
                  /\ EventValues(d, "H ") # {} =>
                         row.H_water_level = SetMax(EventValues(d, "H "))
                  /\ EventValues(d, "L ") # {} =>
                         row.L_water_level = SetMin(EventValues(d, "L "))
                  /\ EventValues(d, "LL") # {} =>
                         row.LL_water_level = SetMin(EventValues(d, "LL"))

\* C16: every calendar date on which the upstream listed an event has a
\* row in the table of a high_low call, and a row's value for an event type
\* is missing exactly when that type did not occur on the row's date
C16_EveryEventDateAppears ==
    HighLowReturned =>
        /\ \A k \in 1..Len(df.rows) :
              \E j \in 1..Len(data.rows) : data.rows[j].t.day = df.rows[k].t.day
        /\ \A j \in 1..Len(data.rows) :
              LET row == data.rows[j]
                  d == row.t.day
              IN  /\ row.HH_water_level = NaN <=> EventValues(d, "HH") = {}
                  /\ row.H_water_level = NaN <=> EventValues(d, "H ") = {}
                  /\ row.L_water_level = NaN <=> EventValues(d, "L ") = {}
                  /\ row.LL_water_level = NaN <=> EventValues(d, "LL") = {}

\* a date with an L event and no LL event, next to a date with an LL only
C16_Witness ==
    /\ HighLowReturned
    /\ Len(data.rows) >= 2
    /\ EventValues(data.rows[1].t.day, "L ") # {}
    /\ EventValues(data.rows[1].t.day, "LL") = {}
    /\ data.rows[1].L_water_level # NaN
    /\ data.rows[1].LL_water_level = NaN
    /\ data.rows[2].LL_water_level # NaN
    /\ data.rows[2].HH_water_level = NaN

\* the hours in which the upstream gave an observation
ObservedHours == {HourKey(df.rows[k].t) : k \in 1..Len(df.rows)}

VariantAttribute ==
    [datums |-> "datums", tidepredoffsets |-> "tide_pred_offsets",
     bins |-> "bins", currbin |-> "curr_bin"]

\* the first of the four variant keys that the fetched payload holds
SelectedKey ==
    LET payload == responses[1].payload
    IN  VariantKeys[SetMin({n \in 1..Len(VariantKeys) :
                               VariantKeys[n] \in DOMAIN payload})]

\* the attributes of exactly the selected variant are set, each to the
\* payload's value, metadata is the payload and id is the argument
VariantMirrorsPayload ==
    LET payload == responses[1].payload
    IN  /\ station.id = init_args.id
        /\ station.metadata = payload
        /\ {VariantAttribute[k] : k \in DOMAIN VariantAttribute}
               \cap DOMAIN station.attrs = {VariantAttribute[SelectedKey]}
        /\ DOMAIN station.attrs =
               {Assignments(SelectedKey)[n][1] :
                   n \in 1..Len(Assignments(SelectedKey))}
        /\ \A a \in DOMAIN station.attrs \ {"lat_lon"} :
              \E k \in DOMAIN payload : station.attrs[a] = payload[k]
        /\ station.attrs["name"] = payload["name"]

\* C18 as stated: after construction the attributes of exactly one variant
\* are set, the one whose key the payload holds; metadata is the payload,
\* name and state are the payload's name and state, id is the argument
C18_OneVariantMirrorsPayload ==
    pc = "constructed" =>
        /\ VariantMirrorsPayload
        /\ "state" \in DOMAIN station.attrs
        /\ "state" \in DOMAIN station.metadata
        /\ station.attrs["state"] = station.metadata["state"]

\* C18, amended: as stated, except that state is set (to the payload's
\* state) for the water-level and tide-prediction variants only; the two
\* current variants set no state
C18_OneVariantMirrorsPayloadStateOfTwo ==
    pc = "constructed" =>
        /\ VariantMirrorsPayload
        /\ "state" \in DOMAIN station.attrs
               <=> SelectedKey \in {"datums", "tidepredoffsets"}
        /\ "state" \in DOMAIN station.attrs =>
               station.attrs["state"] = station.metadata["state"]

C18_Witness ==
    /\ pc = "constructed"
    /\ SelectedKey = "bins"
    /\ station.attrs["bins"] = [key |-> "bins", of |-> 2]
    /\ station.attrs["name"] = [key |-> "name", of |-> 2]
    /\ "state" \notin DOMAIN station.attrs
    /\ station.id = "PUG1515"

\* C19: construction fetches the metadata and then the inventory; a failed
\* metadata fetch ends it with that error and without an inventory fetch;
\* a failed inventory fetch is suppressed and leaves data_inventory unset
C19_MetadataThenInventory ==
    /\ fetched \in {<<>>, <<"metadata">>, <<"metadata", "inventory">>}
    /\ pc = "failed" =>
          /\ fetched = <<"metadata">>
          /\ outcome.kind = "raised" /\ outcome.at = "get_metadata"
          /\ responses[1].error => outcome.exc = responses[1].exc
    /\ (Len(responses) >= 1 /\ responses[1].error) => pc = "failed"
    /\ Len(fetched) = 2 =>
          /\ pc = "constructed"
          /\ outcome.kind = "none"
          /\ ~responses[1].error
          /\ station.has_inventory <=> ~responses[2].error
          /\ responses[2].error => station.data_inventory = NoInventory

C19_Witness ==
    /\ pc = "constructed"
    /\ responses[2].error
    /\ ~station.has_inventory
    /\ station.metadata = responses[1].payload

\* C20: no step of get_data changes the station's id, units, metadata or
\* any attribute but data; the step that returns sets data to the returned
\* table, and every other step, a failing one included, leaves data as it was
C20_OnlyDataChanges ==
    [][/\ station' = station
       /\ init_args' = init_args
       /\ (pc' = "done" /\ outcome'.kind = "returned") =>
             (data' = outcome'.value /\ outcome'.value # NoTable)
       /\ ~(pc' = "done" /\ outcome'.kind = "returned") => data' = data]_vars

\* a call that failed in the normalisation left the earlier table in data
C20_Witness ==
    /\ pc = "done"
    /\ outcome.kind = "raised" /\ outcome.at = "get_data"
    /\ df.rows # <<>>
    /\ data = PreviousTable
    /\ station = SeattleStation

\* the call ended in _url2pandas on its k-th response
RaisedOnResponse(k) ==
    /\ pc = "done" /\ outcome.kind = "raised" /\ outcome.at = "_url2pandas"
    /\ Len(responses) = k

\* C29: a response with an error payload is either absorbed or ends the
\* call with COOPSAPIError, never with another exception; when the payload
\* has no message the error's message is "Error retrieving data"
C29_OnlyCOOPSAPIError ==
    \A k \in 1..Len(responses) :
        (responses[k].error /\ RaisedOnResponse(k)) =>
            /\ outcome.exc = "COOPSAPIError"
            /\ ~responses[k].message.present =>
                   outcome.message.text = "Error retrieving data"

\* C30: in a fetch whose blocks may answer with the no-data message, that
\* message is absorbed also when blanks surround it
C30_PaddedNoDataAbsorbed ==
    (DatesParsed /\ num_request_blocks_arg(Days, Branch) > 1) =>
        \A k \in 1..Len(responses) :
            (responses[k].error /\ strip(responses[k].message) = no_data_error)
                => ~RaisedOnResponse(k)

\* the call takes one of the two block loops
MultiBlock == DatesParsed /\ Branch \notin SingleBranches

\* the records of the first n responses, in the order they arrived
RECURSIVE records_upto(_)
records_upto(n) ==
    IF n = 0 THEN <<>> ELSE records_upto(n - 1) \o responses[n].records

\* C25: in a multi-block fetch the requests go out one at a time in block
\* order, the next one only after the previous response was handled, and
\* the frame holds the rows of the blocks in that order
C25_BlocksInSequence ==
    MultiBlock =>
        /\ Len(requests) \in {Len(responses), Len(responses) + 1}
        /\ Len(requests) = Len(responses) + 1 <=> pc = "await"
        /\ pc = "request" => (i = Len(responses) /\ outcome.kind = "none")
        /\ \A k \in 1..Len(requests) :
              requests[k].begin_date.day = begin_datetime.day + (k - 1) * BlockSize
        /\ df.rows = records_upto(Len(responses))

C25_Witness ==
    /\ MultiBlock /\ pc = "normalize"
    /\ Len(requests) = 3 /\ Len(responses) = 3
    /\ Len(df.rows) = 5
    /\ df.rows[1].v = 1 /\ df.rows[3].v = 2 /\ df.rows[5].v = 3

\* C26: no calendar day lies in the date range of two requests of one
\* multi-block fetch
C26_BlocksDisjoint ==
    MultiBlock =>
        \A j, k \in 1..Len(requests) :
            j < k => requests[j].end_date.day < requests[k].begin_date.day

\* C27: every request of a multi-block fetch carries day-granularity dates,
\* the first one beginning on the day of begin_date and the last planned
\* one ending on the day of end_date whatever their time of day; the single
\* request of a span of <= 31 days carries both times of day
C27_BlockDatesDropTime ==
    /\ MultiBlock =>
          /\ \A k \in 1..Len(requests) :
                /\ requests[k].begin_date.fmt = "%Y%m%d"
                /\ requests[k].end_date.fmt = "%Y%m%d"
                /\ requests[k].begin_date.min = 0
                /\ requests[k].end_date.min = 0
          /\ requests # <<>> => requests[1].begin_date.day = query.begin_date.day
          /\ Len(requests) = loop_count(Days, Branch) =>
                requests[Len(requests)].end_date.day = query.end_date.day
    /\ (DatesParsed /\ Days <= 31 /\ requests # <<>>) =>
          /\ requests[1].begin_date =
                 [fmt |-> "%Y%m%d %H:%M", day |-> query.begin_date.day,
                  min |-> query.begin_date.min]
          /\ requests[1].end_date =
                 [fmt |-> "%Y%m%d %H:%M", day |-> query.end_date.day,
                  min |-> query.end_date.min]

C27_Witness ==
    /\ MultiBlock
    /\ query.begin_date.min = 720 /\ query.end_date.min = 360
    /\ Len(requests) = loop_count(Days, Branch)
    /\ requests[1].begin_date.min = 0
    /\ requests[Len(requests)].end_date.min = 0

C24_InventoryPerName ==
    (pc = "constructed" /\ ~responses[2].error) =>
        LET parameter == responses[2].parameter
        IN  /\ station.has_inventory
            /\ DOMAIN station.data_inventory =
                   {parameter[n].name : n \in 1..Len(parameter)}
            /\ \A n \in 1..Len(parameter) :
                  LET entry == station.data_inventory[parameter[n].name]
                  IN  /\ (\A m \in 1..(n - 1) : parameter[m].name # parameter[n].name)
                          => entry.start_date = parameter[n].first
                      /\ (\A m \in (n + 1)..Len(parameter) :
                              parameter[m].name # parameter[n].name)
                          => entry.end_date = parameter[n].last

C24_Witness ==
    /\ pc = "constructed" /\ ~responses[2].error
    /\ responses[2].parameter =
           <<[name |-> "Wind", first |-> 1, last |-> 3],
             [name |-> "Wind", first |-> 2, last |-> 4]>>
    /\ station.data_inventory["Wind"] = [start_date |-> 1, end_date |-> 4]

\* C21: a response whose status is not 200 ends the call with the
\* upstream error (COOPSAPIError), whatever its body
C21_Non200IsUpstreamError ==
    \A k \in 1..Len(responses) :
        responses[k].status # "200" =>
            (RaisedOnResponse(k) /\ outcome.exc = "COOPSAPIError")

\* C22: get_stations_from_bbox raises ValueError whenever one of the two
\* lists does not have two elements, and returns a list of ids when both
\* have two and the station list was fetched
C22_LengthChecked ==
    (pc = "done" /\ fetched = <<"stations">>) =>
        IF Len(coords_given.lat_coords) # 2 \/ Len(coords_given.lon_coords) # 2
        THEN outcome.kind = "raised" /\ outcome.exc = "ValueError"
        ELSE ~responses[1].error =>
                /\ outcome.kind = "returned"
                /\ \A n \in 1..Len(station_list) :
                      \E m \in 1..Len(responses[1].stations) :
                          station_list[n] = responses[1].stations[m].id

\* C23: the list returned holds, in the order of the upstream list, the
\* ids of exactly the stations strictly between the smaller and the larger
\* given latitude and strictly between the smaller and the larger given
\* longitude, so the order within either given pair does not matter
C23_StrictlyInsideInOrder ==
    (pc = "done" /\ fetched = <<"stations">> /\ outcome.kind = "returned") =>
        LET lat == {coords_given.lat_coords[1], coords_given.lat_coords[2]}
            lon == {coords_given.lon_coords[1], coords_given.lon_coords[2]}
            inside == SelectSeq(responses[1].stations, LAMBDA st :
                          /\ SetMin(lat) < st.lat /\ st.lat < SetMax(lat)
                          /\ SetMin(lon) < st.lng /\ st.lng < SetMax(lon))
        IN  station_list = [n \in 1..Len(inside) |-> inside[n].id]

\* latitudes given larger first; one station on the edge is left out
C23_Witness ==
    /\ pc = "done" /\ outcome.kind = "returned"
    /\ coords_given = [lat_coords |-> <<2, 0>>, lon_coords |-> <<0, 2>>]
    /\ responses[1].stations = UpstreamStations
    /\ station_list = <<"8443970">>

====
